---------------------------- MODULE Spec2Model ----------------------------
(***************************************************************************)
(* Model of the recipe system's core: the two sorting strategies           *)
(* (recipe_system/sorting.py) and the boolean expression evaluator         *)
(* (recipe_system/logic.py).                                               *)
(*                                                                         *)
(* Python lists are objects: the model keeps a heap of list objects and    *)
(* passes references, so that copying (list(items)), slicing and in-place  *)
(* swaps are distinguishable from aliasing.                                *)
(***************************************************************************)
EXTENDS Integers, Sequences, FiniteSets, TLC

VARIABLES
    heap,        \* sequence of list objects; a reference is an index into it
    items,       \* reference of the caller's input list
    key_func,    \* the key function, item -> key
    reverse,     \* the reverse flag
    input0,      \* contents of the input list when the calls started
    bubbleRet,   \* reference returned by BubbleSort.sort, NoRef before the call
    mergeRet,    \* reference returned by MergeSort.sort, NoRef before the call
    bubbleLog,   \* key calls, comparisons and passes of the BubbleSort.sort call
    mergeLog,    \* key calls and comparisons of the MergeSort.sort call
    expr,        \* the expression text handed to eval_expr
    env,         \* the environment handed to eval_expr, name -> boolean
    legacy,      \* whether the running Python's ast module still has Num and Str
    evalRet,     \* outcome of eval_expr, NotCalled before the call
    evalAgain,   \* outcome of a second eval_expr call with the same arguments
    canon,       \* the expression of expr as written with and, or, not
    varsRet,     \* outcome of parse_vars(expr), NoVars before the call
    tableRet,    \* outcome of truth_table(expr), NoTable before the call
    recipes,     \* RecipeManager.recipes, the catalog
    prev,        \* the catalog before the last operation
    call,        \* the last operation: its name, its argument and what it returned
    cli,         \* main(): "start", "menu", or the exception that ended it
    printed,     \* what the last CLI option printed: recipes and messages
    logicTable,  \* the rows of the GUI's logic results table
    dialog,      \* the GUI's last message box, "" when none was shown
    ops          \* number of operations performed since the load

sortVars == <<heap, items, key_func, reverse, input0, bubbleRet, mergeRet,
             bubbleLog, mergeLog>>
evalVars == <<expr, env, legacy, evalRet, evalAgain, canon>>
tableVars == <<varsRet, tableRet>>
catalogVars == <<recipes, prev, call, cli, printed, logicTable, dialog, ops>>
vars == <<sortVars, evalVars, tableVars, catalogVars>>

-----------------------------------------------------------------------------
(* Bounds of the sorting inputs *)

MaxLen == 4
MaxKey == 1

Items == {"r1", "r2", "r3"}

\* What the key function does on an item: it returns a number, it returns a
\* tuple (primary, secondaryBit), or it raises.  v holds the components.
IntKey(k) == [t |-> "int", v |-> <<k>>]
TupleKey(p, b) == [t |-> "tuple", v |-> <<p, b>>]
KeyRaises == [t |-> "raise", v |-> <<>>]

Keys == {IntKey(k) : k \in 0..MaxKey}
TupleKeys == {TupleKey(p, b) : p \in 0..MaxKey, b \in {0, 1}}

\* a key function returns numbers (and may raise on some items) or returns tuples
KeyFuncs == [Items -> Keys \cup {KeyRaises}] \cup [Items -> TupleKeys]

NoRef == 0
Raised == -1

RECURSIVE SeqsUpTo(_, _)
SeqsUpTo(S, n) ==
    IF n = 0 THEN {<<>>}
    ELSE LET shorter == SeqsUpTo(S, n - 1)
         IN shorter \cup {Append(s, x) : s \in {t \in shorter : Len(t) = n - 1}, x \in S}

-----------------------------------------------------------------------------
(* Python's ordering of key values: numbers by value, tuples lexicographically *)

FirstDiff(a, b) ==
    LET D == {i \in 1..Len(a) : i <= Len(b) /\ a[i] # b[i]}
    IN IF D = {} THEN 0 ELSE CHOOSE i \in D : \A j \in D : i <= j

\* variant: only the first component is compared
py_lt_first_only(x, y) == x.v[1] < y.v[1]

\* x < y
py_lt(x, y) ==
    LET d == FirstDiff(x.v, y.v)
    IN IF d = 0 THEN Len(x.v) < Len(y.v) ELSE x.v[d] < y.v[d]

\* x > y
py_gt(x, y) == py_lt(y, x)

\* x <= y
py_le(x, y) ==
    LET d == FirstDiff(x.v, y.v)
    IN IF d = 0 THEN Len(x.v) <= Len(y.v) ELSE x.v[d] < y.v[d]

\* x >= y
py_ge(x, y) == py_le(y, x)

-----------------------------------------------------------------------------
(* Heap of list objects *)

\* a new list object holding contents; returns the grown heap and its reference
Alloc(h, contents) == [heap |-> Append(h, contents), ref |-> Len(h) + 1]

\* variant: arr = items, no copy
ListCopy_alias(h, ref) == [heap |-> h, ref |-> ref]

\* list(items): a new list object with the same elements
ListCopy(h, ref) == Alloc(h, h[ref])

\* variant: the swap loses arr[j]
SwapAdjacent_overwrite(arr, j) == [arr EXCEPT ![j] = arr[j + 1]]

\* arr[j], arr[j + 1] = arr[j + 1], arr[j]   (1-based j)
SwapAdjacent(arr, j) == [arr EXCEPT ![j] = arr[j + 1], ![j + 1] = arr[j]]

-----------------------------------------------------------------------------
(* What a call of sort did: the items the key function was called on, in     *)
(* order, the number of key comparisons and the number of passes started.    *)

\* swaps lists, pass by pass, whether the finished pass swapped
NoLog == [calls |-> <<>>, cmps |-> 0, passes |-> 0, swaps |-> <<>>]

\* key(x) and key(y) evaluated in this order; the second is not evaluated when
\* the first raises
KeyCalls(log, key, x, y) ==
    IF key[x] = KeyRaises THEN [log EXCEPT !.calls = Append(@, x)]
    ELSE [log EXCEPT !.calls = @ \o <<x, y>>]

KeyCallRaises(key, x, y) == key[x] = KeyRaises \/ key[y] = KeyRaises

Compared(log) == [log EXCEPT !.cmps = @ + 1]

-----------------------------------------------------------------------------
(* BubbleSort.sort *)

\* variant: swaps on ties as well
should_swap_on_ties(arr, j, key, rev) ==
    IF rev THEN py_le(key[arr[j]], key[arr[j + 1]]) ELSE py_ge(key[arr[j]], key[arr[j + 1]])

\* should_swap = key(arr[j]) < key(arr[j + 1]) if reverse else key(arr[j]) > key(arr[j + 1])
should_swap(arr, j, key, rev) ==
    IF rev THEN py_lt(key[arr[j]], key[arr[j + 1]]) ELSE py_gt(key[arr[j]], key[arr[j + 1]])

\* the inner loop, for j in range(0, n - i - 1), from position j (1-based) up to last;
\* an exception of the key function leaves the loop
RECURSIVE BubblePass(_, _, _, _, _, _, _)
BubblePass(arr, j, last, swapped, key, rev, log) ==
    IF j > last THEN [arr |-> arr, swapped |-> swapped, log |-> log, raised |-> FALSE]
    ELSE LET called == KeyCalls(log, key, arr[j], arr[j + 1])
         IN IF KeyCallRaises(key, arr[j], arr[j + 1])
            THEN [arr |-> arr, swapped |-> swapped, log |-> called, raised |-> TRUE]
            ELSE IF should_swap(arr, j, key, rev)
            THEN BubblePass(SwapAdjacent(arr, j), j + 1, last, TRUE, key, rev, Compared(called))
            ELSE BubblePass(arr, j + 1, last, swapped, key, rev, Compared(called))

StartPass(log) == [log EXCEPT !.passes = @ + 1]

\* the pass ran to its end; swapped is its flag
EndPass(p) ==
    IF p.raised THEN p.log ELSE [p.log EXCEPT !.swaps = Append(@, p.swapped)]

\* variant: stops after the first pass whether or not it swapped
BubblePasses_one_pass(arr, i, n, key, rev, log) ==
    IF i >= n THEN [arr |-> arr, log |-> log, raised |-> FALSE]
    ELSE LET p == BubblePass(arr, 1, n - i - 1, FALSE, key, rev, StartPass(log))
         IN [arr |-> p.arr, log |-> EndPass(p), raised |-> p.raised]

\* variant: an exception of the key function ends the loop like a pass without swap
BubblePasses_swallow(arr, i, n, key, rev, log) ==
    IF i >= n THEN [arr |-> arr, log |-> log, raised |-> FALSE]
    ELSE LET p == BubblePass(arr, 1, n - i - 1, FALSE, key, rev, StartPass(log))
         IN [arr |-> p.arr, log |-> EndPass(p), raised |-> FALSE]

\* variant: no early exit, all n passes are run
RECURSIVE BubblePasses_all_passes(_, _, _, _, _, _)
BubblePasses_all_passes(arr, i, n, key, rev, log) ==
    IF i >= n THEN [arr |-> arr, log |-> log, raised |-> FALSE]
    ELSE LET p == BubblePass(arr, 1, n - i - 1, FALSE, key, rev, StartPass(log))
         IN IF p.raised
            THEN [arr |-> p.arr, log |-> EndPass(p), raised |-> p.raised]
            ELSE BubblePasses_all_passes(p.arr, i + 1, n, key, rev, EndPass(p))

\* the outer loop, for i in range(n), with the early exit on a pass without swap
RECURSIVE BubblePasses(_, _, _, _, _, _)
BubblePasses(arr, i, n, key, rev, log) ==
    IF i >= n THEN [arr |-> arr, log |-> log, raised |-> FALSE]
    ELSE LET p == BubblePass(arr, 1, n - i - 1, FALSE, key, rev, StartPass(log))
         IN IF p.raised \/ ~p.swapped
            THEN [arr |-> p.arr, log |-> EndPass(p), raised |-> p.raised]
            ELSE BubblePasses(p.arr, i + 1, n, key, rev, EndPass(p))

\* variant: the keys of all items are computed before the length is looked at
BubbleSort_sort_keys_first(h, its, key, rev) ==
    LET c == ListCopy(h, its)
    IN [heap |-> c.heap, ret |-> c.ref,
        log |-> [NoLog EXCEPT !.calls = c.heap[c.ref]]]

\* BubbleSort.sort(items, key_func, reverse): the heap after the call, the returned
\* reference (Raised when the key function's exception left the call) and the log
BubbleSort_sort(h, its, key, rev) ==
    LET c == ListCopy(h, its)
        arr == c.ref
        n == Len(c.heap[arr])
    IN IF n < 2 THEN [heap |-> c.heap, ret |-> arr, log |-> NoLog]
       ELSE LET r == BubblePasses(c.heap[arr], 0, n, key, rev, NoLog)
            IN [heap |-> [c.heap EXCEPT ![arr] = r.arr],
                ret |-> IF r.raised THEN Raised ELSE arr,
                log |-> r.log]

-----------------------------------------------------------------------------
(* MergeSort.sort and MergeSort._merge *)

\* variant: takes the right element on ties
is_less_strict(l, r, key, rev) ==
    IF rev THEN py_gt(key[l], key[r]) ELSE py_lt(key[l], key[r])

\* is_less_or_equal = key(left[i]) >= key(right[j]) if reverse else key(left[i]) <= key(right[j])
is_less_or_equal(l, r, key, rev) ==
    IF rev THEN py_ge(key[l], key[r]) ELSE py_le(key[l], key[r])

\* the merge loop from positions i, j (1-based) with merged built so far
RECURSIVE MergeLoop(_, _, _, _, _, _, _, _)
MergeLoop(left, right, i, j, merged, key, rev, log) ==
    IF i <= Len(left) /\ j <= Len(right)
    THEN LET called == KeyCalls(log, key, left[i], right[j])
         IN IF KeyCallRaises(key, left[i], right[j])
            THEN [merged |-> merged, log |-> called, raised |-> TRUE]
            ELSE IF is_less_or_equal(left[i], right[j], key, rev)
            THEN MergeLoop(left, right, i + 1, j, Append(merged, left[i]), key, rev,
                           Compared(called))
            ELSE MergeLoop(left, right, i, j + 1, Append(merged, right[j]), key, rev,
                           Compared(called))
    ELSE [merged |-> merged \o SubSeq(left, i, Len(left)) \o SubSeq(right, j, Len(right)),
          log |-> log, raised |-> FALSE]

\* MergeSort._merge(left, right, key, reverse): a new list object
MergeSort_merge(h, left, right, key, rev, log) ==
    LET r == MergeLoop(h[left], h[right], 1, 1, <<>>, key, rev, log)
        m == Alloc(h, r.merged)
    IN [heap |-> m.heap, ret |-> IF r.raised THEN Raised ELSE m.ref, log |-> r.log]

\* MergeSort.sort(items, key_func, reverse) continuing the log of the enclosing call:
\* the heap after the call, the returned reference (Raised when the key function's
\* exception left the call) and the log
RECURSIVE MergeSort_sort(_, _, _, _, _)
MergeSort_sort(h, its, key, rev, log) ==
    LET c == ListCopy(h, its)
        arr == c.ref
        n == Len(c.heap[arr])
    IN IF n < 2 THEN [heap |-> c.heap, ret |-> arr, log |-> log]
       ELSE LET mid == n \div 2
                lslice == Alloc(c.heap, SubSeq(c.heap[arr], 1, mid))
                left == MergeSort_sort(lslice.heap, lslice.ref, key, rev, log)
                rslice == Alloc(left.heap, SubSeq(left.heap[arr], mid + 1, n))
                right == MergeSort_sort(rslice.heap, rslice.ref, key, rev, left.log)
            IN IF left.ret = Raised THEN left
               ELSE IF right.ret = Raised THEN right
               ELSE MergeSort_merge(right.heap, left.ret, right.ret, key, rev, right.log)

-----------------------------------------------------------------------------
(* The caller: one input list, sorted once by each strategy *)

SortIdle ==
    /\ heap = <<>>
    /\ input0 = <<>>
    /\ items = NoRef
    /\ key_func = [x \in Items |-> IntKey(0)]
    /\ reverse = FALSE
    /\ bubbleRet = NoRef
    /\ mergeRet = NoRef
    /\ bubbleLog = NoLog
    /\ mergeLog = NoLog

SortInputs ==
    /\ \E L \in SeqsUpTo(Items, MaxLen) :
          /\ heap = <<L>>
          /\ input0 = L
    /\ items = 1
    /\ key_func \in KeyFuncs
    /\ reverse \in BOOLEAN
    /\ bubbleRet = NoRef
    /\ mergeRet = NoRef
    /\ bubbleLog = NoLog
    /\ mergeLog = NoLog

CallBubbleSort ==
    /\ bubbleRet = NoRef
    /\ LET r == BubbleSort_sort(heap, items, key_func, reverse)
       IN /\ heap' = r.heap
          /\ bubbleRet' = r.ret
          /\ bubbleLog' = r.log
    /\ UNCHANGED <<items, key_func, reverse, input0, mergeRet, mergeLog>>
    /\ UNCHANGED <<evalVars, tableVars, catalogVars>>

CallMergeSort ==
    /\ mergeRet = NoRef
    /\ LET r == MergeSort_sort(heap, items, key_func, reverse, NoLog)
       IN /\ heap' = r.heap
          /\ mergeRet' = r.ret
          /\ mergeLog' = r.log
    /\ UNCHANGED <<items, key_func, reverse, input0, bubbleRet, bubbleLog>>
    /\ UNCHANGED <<evalVars, tableVars, catalogVars>>

-----------------------------------------------------------------------------
(* Expression text.  A text is a sequence of characters; a character is a    *)
(* one-character string, except the three logical symbols, which are named   *)
(* by their code points.                                                     *)

Wedge == "U+2227"
Vee == "U+2228"
NotSign == "U+00AC"

Upper == {"A", "B", "C", "D", "E", "F", "G", "H", "I", "J", "K", "L", "M",
          "N", "O", "P", "Q", "R", "S", "T", "U", "V", "W", "X", "Y", "Z"}
Lower == {"a", "b", "c", "d", "e", "f", "g", "h", "i", "j", "k", "l", "m",
          "n", "o", "p", "q", "r", "s", "t", "u", "v", "w", "x", "y", "z"}
Digits == {"0", "1", "2", "3", "4", "5", "6", "7", "8", "9"}
IdStart == Upper \cup Lower \cup {"_"}
IdChars == IdStart \cup Digits
OpChars == {"(", ")", "[", "]", "+", "-", ".", ",", "~"}
Quote == "'"

kw_and == <<"a", "n", "d">>
kw_or == <<"o", "r">>
kw_not == <<"n", "o", "t">>
kw_True == <<"T", "r", "u", "e">>
kw_False == <<"F", "a", "l", "s", "e">>
kw_None == <<"N", "o", "n", "e">>
Keywords == {kw_and, kw_or, kw_not, kw_True, kw_False, kw_None}

\* str.replace(old, new) from position i: leftmost non-overlapping occurrences
RECURSIVE ReplaceFrom(_, _, _, _)
ReplaceFrom(s, i, old, new) ==
    IF i > Len(s) THEN <<>>
    ELSE IF i + Len(old) - 1 <= Len(s) /\ SubSeq(s, i, i + Len(old) - 1) = old
         THEN new \o ReplaceFrom(s, i + Len(old), old, new)
         ELSE <<s[i]>> \o ReplaceFrom(s, i + 1, old, new)

replace(s, old, new) == ReplaceFrom(s, 1, old, new)

\* variant: only the symbols are rewritten
Normalize_symbols_only(text) ==
    LET s1 == replace(text, <<Wedge>>, <<" ">> \o kw_and \o <<" ">>)
        s2 == replace(s1, <<Vee>>, <<" ">> \o kw_or \o <<" ">>)
    IN replace(s2, <<NotSign>>, <<" ">> \o kw_not \o <<" ">>)

\* the two normalisation statements of eval_expr
Normalize(text) ==
    LET s1 == replace(text, <<Wedge>>, <<" ">> \o kw_and \o <<" ">>)
        s2 == replace(s1, <<Vee>>, <<" ">> \o kw_or \o <<" ">>)
        s3 == replace(s2, <<NotSign>>, <<" ">> \o kw_not \o <<" ">>)
        s4 == replace(s3, <<"A", "N", "D">>, kw_and)
        s5 == replace(s4, <<"O", "R">>, kw_or)
    IN replace(s5, <<"N", "O", "T">>, kw_not)

-----------------------------------------------------------------------------
(* ast.parse(expr, mode='eval'): tokens, then the expression grammar         *)
(* (disjunction, conjunction, inversion, comparison, sum, factor, primary,   *)
(* atom).  Every node has the same shape.                                    *)

Node(type, op, id, const, kids) ==
    [type |-> type, op |-> op, id |-> id, const |-> const, kids |-> kids]

Name(id) == Node("Name", "", id, "", <<>>)
Constant(const, text) == Node("Constant", "", text, const, <<>>)
UnaryOp(op, operand) == Node("UnaryOp", op, <<>>, "", <<operand>>)
BoolOp(op, values) == Node("BoolOp", op, <<>>, "", values)
BinOp(op, left, right) == Node("BinOp", op, <<>>, "", <<left, right>>)
Compare(operands) == Node("Compare", "Eq", <<>>, "", operands)
Attribute(value, attr) == Node("Attribute", "", attr, "", <<value>>)
Subscript(value, slice) == Node("Subscript", "", <<>>, "", <<value, slice>>)
Call(func, args) == Node("Call", "", <<>>, "", <<func>> \o args)
Expression(body) == Node("Expression", "", <<>>, "", <<body>>)
NoNode == Node("", "", <<>>, "", <<>>)

Tok(k, v) == [k |-> k, v |-> v]
ErrorToken == Tok("ERRORTOKEN", <<>>)

\* first position at or after i whose character is not in C
RECURSIVE RunEnd(_, _, _)
RunEnd(s, i, C) == IF i <= Len(s) /\ s[i] \in C THEN RunEnd(s, i + 1, C) ELSE i

RECURSIVE StringEnd(_, _)
StringEnd(s, i) == IF i <= Len(s) /\ s[i] # Quote THEN StringEnd(s, i + 1) ELSE i

\* the tokens of s from position i; an ERRORTOKEN ends the list on a lexical error
RECURSIVE Tokens(_, _)
Tokens(s, i) ==
    IF i > Len(s) THEN <<>>
    ELSE LET c == s[i]
         IN IF c = " " THEN Tokens(s, i + 1)
            ELSE IF c \in IdStart
            THEN LET e == RunEnd(s, i, IdChars)
                     w == SubSeq(s, i, e - 1)
                 IN <<Tok(IF w \in Keywords THEN "KEYWORD" ELSE "NAME", w)>> \o Tokens(s, e)
            ELSE IF c \in Digits
            THEN LET e == RunEnd(s, i, Digits)
                 IN IF e <= Len(s) /\ s[e] \in IdStart
                    THEN <<ErrorToken>>
                    ELSE <<Tok("NUMBER", SubSeq(s, i, e - 1))>> \o Tokens(s, e)
            ELSE IF c = Quote
            THEN LET e == StringEnd(s, i + 1)
                 IN IF e > Len(s)
                    THEN <<ErrorToken>>
                    ELSE <<Tok("STRING", SubSeq(s, i + 1, e - 1))>> \o Tokens(s, e + 1)
            ELSE IF c = "="
            THEN IF i + 1 <= Len(s) /\ s[i + 1] = "="
                 THEN <<Tok("OP", <<"=", "=">>)>> \o Tokens(s, i + 2)
                 ELSE <<Tok("OP", <<"=">>)>> \o Tokens(s, i + 1)
            ELSE IF c \in OpChars
            THEN <<Tok("OP", <<c>>)>> \o Tokens(s, i + 1)
            ELSE <<ErrorToken>>

IsTok(ts, p, k, v) == p <= Len(ts) /\ ts[p].k = k /\ ts[p].v = v
IsOp(ts, p, c) == IsTok(ts, p, "OP", c)
IsKw(ts, p, w) == IsTok(ts, p, "KEYWORD", w)

Parsed(node, pos) == [ok |-> TRUE, node |-> node, pos |-> pos]
NoParse == [ok |-> FALSE, node |-> NoNode, pos |-> 0]

Unary(ts, p) == IsOp(ts, p, <<"-">>) \/ IsOp(ts, p, <<"+">>) \/ IsOp(ts, p, <<"~">>)
unary_op(ts, p) ==
    IF IsOp(ts, p, <<"-">>) THEN "USub" ELSE IF IsOp(ts, p, <<"+">>) THEN "UAdd" ELSE "Invert"

\* Parse(rule, ts, p, acc): the grammar rule applied to the tokens ts from position p;
\* acc holds what the rule has parsed so far (the operands of a repetition, the
\* primary that trailers apply to, the arguments of a call).
\*   expression:  disjunction
\*   disjunction: conjunction ('or' conjunction)*
\*   conjunction: inversion ('and' inversion)*
\*   inversion:   'not' inversion | comparison
\*   comparison:  sum ('==' sum)*
\*   sum:         sum '+' factor | sum '-' factor | factor
\*   factor:      '+' factor | '-' factor | '~' factor | primary
\*   primary:     primary '.' NAME | primary '(' [arguments] ')'
\*                | primary '[' expression ']' | atom
\*   arguments:   expression (',' expression)*
\*   atom:        NAME | 'True' | 'False' | 'None' | NUMBER | STRING | '(' expression ')'
RECURSIVE Parse(_, _, _, _)
Parse(rule, ts, p, acc) ==
    CASE rule = "expression" -> Parse("disjunction", ts, p, <<>>)
      [] rule = "disjunction" ->
            IF acc = <<>>
            THEN LET e == Parse("conjunction", ts, p, <<>>)
                 IN IF e.ok THEN Parse("disjunction", ts, e.pos, <<e.node>>) ELSE NoParse
            ELSE IF IsKw(ts, p, kw_or)
            THEN LET e == Parse("conjunction", ts, p + 1, <<>>)
                 IN IF e.ok THEN Parse("disjunction", ts, e.pos, Append(acc, e.node))
                    ELSE NoParse
            ELSE IF Len(acc) = 1 THEN Parsed(acc[1], p)
            ELSE Parsed(BoolOp("Or", acc), p)
      [] rule = "conjunction" ->
            IF acc = <<>>
            THEN LET e == Parse("inversion", ts, p, <<>>)
                 IN IF e.ok THEN Parse("conjunction", ts, e.pos, <<e.node>>) ELSE NoParse
            ELSE IF IsKw(ts, p, kw_and)
            THEN LET e == Parse("inversion", ts, p + 1, <<>>)
                 IN IF e.ok THEN Parse("conjunction", ts, e.pos, Append(acc, e.node))
                    ELSE NoParse
            ELSE IF Len(acc) = 1 THEN Parsed(acc[1], p)
            ELSE Parsed(BoolOp("And", acc), p)
      [] rule = "inversion" ->
            IF IsKw(ts, p, kw_not)
            THEN LET e == Parse("inversion", ts, p + 1, <<>>)
                 IN IF e.ok THEN Parsed(UnaryOp("Not", e.node), e.pos) ELSE NoParse
            ELSE Parse("comparison", ts, p, <<>>)
      [] rule = "comparison" ->
            IF acc = <<>>
            THEN LET e == Parse("sum", ts, p, <<>>)
                 IN IF e.ok THEN Parse("comparison", ts, e.pos, <<e.node>>) ELSE NoParse
            ELSE IF IsOp(ts, p, <<"=", "=">>)
            THEN LET e == Parse("sum", ts, p + 1, <<>>)
                 IN IF e.ok THEN Parse("comparison", ts, e.pos, Append(acc, e.node))
                    ELSE NoParse
            ELSE IF Len(acc) = 1 THEN Parsed(acc[1], p)
            ELSE Parsed(Compare(acc), p)
      [] rule = "sum" ->
            IF acc = <<>>
            THEN LET e == Parse("factor", ts, p, <<>>)
                 IN IF e.ok THEN Parse("sum", ts, e.pos, <<e.node>>) ELSE NoParse
            ELSE IF IsOp(ts, p, <<"+">>) \/ IsOp(ts, p, <<"-">>)
            THEN LET e == Parse("factor", ts, p + 1, <<>>)
                     op == IF IsOp(ts, p, <<"+">>) THEN "Add" ELSE "Sub"
                 IN IF e.ok THEN Parse("sum", ts, e.pos, <<BinOp(op, acc[1], e.node)>>)
                    ELSE NoParse
            ELSE Parsed(acc[1], p)
      [] rule = "factor" ->
            IF Unary(ts, p)
            THEN LET e == Parse("factor", ts, p + 1, <<>>)
                 IN IF e.ok THEN Parsed(UnaryOp(unary_op(ts, p), e.node), e.pos) ELSE NoParse
            ELSE Parse("primary", ts, p, <<>>)
      [] rule = "primary" ->
            IF acc = <<>>
            THEN LET a == Parse("atom", ts, p, <<>>)
                 IN IF a.ok THEN Parse("primary", ts, a.pos, <<a.node>>) ELSE NoParse
            ELSE IF IsOp(ts, p, <<".">>)
            THEN IF p + 1 <= Len(ts) /\ ts[p + 1].k = "NAME"
                 THEN Parse("primary", ts, p + 2, <<Attribute(acc[1], ts[p + 1].v)>>)
                 ELSE NoParse
            ELSE IF IsOp(ts, p, <<"(">>)
            THEN IF IsOp(ts, p + 1, <<")">>)
                 THEN Parse("primary", ts, p + 2, <<Call(acc[1], <<>>)>>)
                 ELSE LET a == Parse("arguments", ts, p + 1, <<>>)
                      IN IF a.ok
                         THEN Parse("primary", ts, a.pos, <<Call(acc[1], a.node.kids)>>)
                         ELSE NoParse
            ELSE IF IsOp(ts, p, <<"[">>)
            THEN LET e == Parse("expression", ts, p + 1, <<>>)
                 IN IF e.ok /\ IsOp(ts, e.pos, <<"]">>)
                    THEN Parse("primary", ts, e.pos + 1, <<Subscript(acc[1], e.node)>>)
                    ELSE NoParse
            ELSE Parsed(acc[1], p)
      [] rule = "arguments" ->
            LET e == Parse("expression", ts, p, <<>>)
            IN IF ~e.ok THEN NoParse
               ELSE IF IsOp(ts, e.pos, <<",">>)
               THEN Parse("arguments", ts, e.pos + 1, Append(acc, e.node))
               ELSE IF IsOp(ts, e.pos, <<")">>)
               THEN Parsed(Node("", "", <<>>, "", Append(acc, e.node)), e.pos + 1)
               ELSE NoParse
      [] rule = "atom" ->
            IF p > Len(ts) THEN NoParse
            ELSE IF ts[p].k = "NAME" THEN Parsed(Name(ts[p].v), p + 1)
            ELSE IF ts[p].k = "NUMBER" THEN Parsed(Constant("int", ts[p].v), p + 1)
            ELSE IF ts[p].k = "STRING" THEN Parsed(Constant("str", ts[p].v), p + 1)
            ELSE IF IsKw(ts, p, kw_True) THEN Parsed(Constant("True", <<>>), p + 1)
            ELSE IF IsKw(ts, p, kw_False) THEN Parsed(Constant("False", <<>>), p + 1)
            ELSE IF IsKw(ts, p, kw_None) THEN Parsed(Constant("None", <<>>), p + 1)
            ELSE IF IsOp(ts, p, <<"(">>)
            THEN LET e == Parse("expression", ts, p + 1, <<>>)
                 IN IF e.ok /\ IsOp(ts, e.pos, <<")">>)
                    THEN Parsed(e.node, e.pos + 1)
                    ELSE NoParse
            ELSE NoParse

P_expression(ts, p) == Parse("expression", ts, p, <<>>)

\* ast.parse(s, mode='eval'): ok with the Expression tree, or SyntaxError (ok = FALSE);
\* leading white space is an unexpected indent
ast_parse(s) ==
    IF Len(s) > 0 /\ s[1] = " " THEN [ok |-> FALSE, tree |-> NoNode]
    ELSE LET ts == Tokens(s, 1)
         IN IF \E i \in 1..Len(ts) : ts[i] = ErrorToken
            THEN [ok |-> FALSE, tree |-> NoNode]
            ELSE LET e == P_expression(ts, 1)
                 IN IF e.ok /\ e.pos = Len(ts) + 1
                    THEN [ok |-> TRUE, tree |-> Expression(e.node)]
                    ELSE [ok |-> FALSE, tree |-> NoNode]

-----------------------------------------------------------------------------
(* _eval_node and eval_expr.  An outcome is a returned boolean or a raised   *)
(* LogicEvalError; looked lists the names looked up in env, in order, and    *)
(* env is the caller's dictionary as the evaluation leaves it.               *)

Value(v, looked, e) ==
    [kind |-> "value", value |-> v, msg |-> "", looked |-> looked, env |-> e]
Raise(msg, looked, e) ==
    [kind |-> "LogicEvalError", value |-> FALSE, msg |-> msg, looked |-> looked,
     env |-> e]

\* variant: the lookup removes the entry, as env.pop(node.id) would
env_getitem_pop(e, id) ==
    [value |-> e[id], env |-> [k \in DOMAIN e \ {id} |-> e[k]]]

\* variant: the value read is the conjunction of all bindings
env_getitem_all(e, id) ==
    [value |-> \A k \in DOMAIN e : e[k], env |-> e]

\* env[node.id]: the value, and the dictionary after the lookup
env_getitem(e, id) ==
    [value |-> e[id], env |-> e]

RECURSIVE eval_node(_, _)
RECURSIVE eval_all(_, _, _, _)
RECURSIVE eval_any_stops_on_false(_, _, _, _)
RECURSIVE eval_any(_, _, _, _)

\* all(_eval_node(v, env) for v in node.values), from operand i on
eval_all(values, i, e, looked) ==
    IF i > Len(values) THEN Value(TRUE, looked, e)
    ELSE LET r == eval_node(values[i], e)
         IN IF r.kind # "value" THEN [r EXCEPT !.looked = looked \o r.looked]
            ELSE IF ~r.value THEN Value(FALSE, looked \o r.looked, r.env)
            ELSE eval_all(values, i + 1, r.env, looked \o r.looked)

\* variant: the scan of an or ends at the first false operand
eval_any_stops_on_false(values, i, e, looked) ==
    IF i > Len(values) THEN Value(TRUE, looked, e)
    ELSE LET r == eval_node(values[i], e)
         IN IF r.kind # "value" THEN [r EXCEPT !.looked = looked \o r.looked]
            ELSE IF ~r.value THEN Value(FALSE, looked \o r.looked, r.env)
            ELSE eval_any_stops_on_false(values, i + 1, r.env, looked \o r.looked)

\* any(_eval_node(v, env) for v in node.values), from operand i on
eval_any(values, i, e, looked) ==
    IF i > Len(values) THEN Value(FALSE, looked, e)
    ELSE LET r == eval_node(values[i], e)
         IN IF r.kind # "value" THEN [r EXCEPT !.looked = looked \o r.looked]
            ELSE IF r.value THEN Value(TRUE, looked \o r.looked, r.env)
            ELSE eval_any(values, i + 1, r.env, looked \o r.looked)

\* _eval_node(node, env)
eval_node(node, e) ==
    IF node.type = "Expression" THEN eval_node(node.kids[1], e)
    ELSE IF node.type = "Name"
    THEN IF node.id \in DOMAIN e
         THEN LET g == env_getitem(e, node.id)
              IN Value(g.value, <<node.id>>, g.env)
         ELSE Raise("Unknown variable", <<node.id>>, e)
    ELSE IF node.type = "UnaryOp"
    THEN IF node.op = "Not"
         THEN LET r == eval_node(node.kids[1], e)
              IN IF r.kind = "value" THEN Value(~r.value, r.looked, r.env) ELSE r
         ELSE Raise("Unsupported operator", <<>>, e)
    ELSE IF node.type = "BoolOp" /\ node.op = "And" THEN eval_all(node.kids, 1, e, <<>>)
    ELSE IF node.type = "BoolOp" /\ node.op = "Or" THEN eval_any(node.kids, 1, e, <<>>)
    ELSE IF node.type = "Constant" /\ node.const \in {"True", "False"}
    THEN Value(node.const = "True", <<>>, e)
    ELSE Raise("Unsupported operation", <<>>, e)

\* ast.walk(tree): every node of the tree
RECURSIVE ast_walk(_)
ast_walk(node) ==
    {node} \cup UNION {ast_walk(node.kids[i]) : i \in 1..Len(node.kids)}

\* variant: Compare missing from the list
invalid_nodes_no_compare(hasLegacy) ==
    {"BinOp", "Attribute", "Subscript", "Assign"}
        \cup (IF hasLegacy THEN {"Num", "Str"} ELSE {})

\* invalid_nodes, with Num and Str appended when the ast module has them
invalid_nodes(hasLegacy) ==
    {"BinOp", "Compare", "Attribute", "Subscript", "Assign"}
        \cup (IF hasLegacy THEN {"Num", "Str"} ELSE {})

\* isinstance(node, tuple(classes)); Num and Str match Constant nodes by value type
isinstance(node, classes) ==
    \/ node.type \in classes
    \/ "Num" \in classes /\ node.type = "Constant" /\ node.const = "int"
    \/ "Str" \in classes /\ node.type = "Constant" /\ node.const = "str"

NotCalled ==
    [kind |-> "none", value |-> FALSE, msg |-> "", looked |-> <<>>, env |-> <<>>,
     parsed |-> FALSE, tree |-> NoNode]

\* eval_expr(expr, env): the outcome, with the tree that was parsed
eval_expr(text, e, hasLegacy) ==
    LET p == ast_parse(Normalize(text))
    IN IF ~p.ok
       THEN Raise("Syntax error", <<>>, e) @@ [parsed |-> FALSE, tree |-> NoNode]
       ELSE IF \E node \in ast_walk(p.tree) : isinstance(node, invalid_nodes(hasLegacy))
       THEN Raise("Only boolean expressions", <<>>, e) @@ [parsed |-> TRUE, tree |-> p.tree]
       ELSE eval_node(p.tree, e) @@ [parsed |-> TRUE, tree |-> p.tree]

-----------------------------------------------------------------------------
(* parse_vars and truth_table *)

\* variant: the operand of a unary operator is not visited
RECURSIVE collect_vars_skips_operand(_, _)
collect_vars_skips_operand(todo, vars_set) ==
    IF todo = <<>> THEN vars_set
    ELSE LET node == Head(todo)
         IN collect_vars_skips_operand(
                (IF node.type = "UnaryOp" THEN <<>> ELSE node.kids) \o Tail(todo),
                IF node.type = "Name" THEN vars_set \cup {node.id} ELSE vars_set)

\* _collect_vars(node, vars_set), over the nodes still to visit: a Name adds
\* its id, then the children are visited
RECURSIVE collect_vars(_, _)
collect_vars(todo, vars_set) ==
    IF todo = <<>> THEN vars_set
    ELSE LET node == Head(todo)
         IN collect_vars(node.kids \o Tail(todo),
                         IF node.type = "Name" THEN vars_set \cup {node.id} ELSE vars_set)

\* the characters of identifiers in code point order
CodeOrder ==
    <<"0", "1", "2", "3", "4", "5", "6", "7", "8", "9",
      "A", "B", "C", "D", "E", "F", "G", "H", "I", "J", "K", "L", "M",
      "N", "O", "P", "Q", "R", "S", "T", "U", "V", "W", "X", "Y", "Z", "_",
      "a", "b", "c", "d", "e", "f", "g", "h", "i", "j", "k", "l", "m",
      "n", "o", "p", "q", "r", "s", "t", "u", "v", "w", "x", "y", "z">>

ord(c) == CHOOSE i \in 1..Len(CodeOrder) : CodeOrder[i] = c

\* str.lower(): an uppercase letter becomes its lowercase letter
lower(str) ==
    [i \in 1..Len(str) |-> IF str[i] \in Upper THEN CodeOrder[ord(str[i]) + 27] ELSE str[i]]

\* a < b on strings: by the first differing character, a proper prefix first
str_lt(a, b) ==
    LET d == {i \in 1..Len(a) : i > Len(b) \/ a[i] # b[i]}
    IN IF d = {} THEN Len(a) < Len(b)
       ELSE LET i == CHOOSE j \in d : \A k \in d : j <= k
            IN i <= Len(b) /\ ord(a[i]) < ord(b[i])

\* variant: descending order
RECURSIVE sorted_descending(_)
sorted_descending(S) ==
    IF S = {} THEN <<>>
    ELSE LET hi == CHOOSE x \in S : \A y \in S : x = y \/ str_lt(y, x)
         IN <<hi>> \o sorted_descending(S \ {hi})

\* sorted(vars_set): the list of the set's strings in ascending order
RECURSIVE sorted(_)
sorted(S) ==
    IF S = {} THEN <<>>
    ELSE LET lo == CHOOSE x \in S : \A y \in S : x = y \/ str_lt(x, y)
         IN <<lo>> \o sorted(S \ {lo})

NoVars == [kind |-> "none", msg |-> "", vars |-> <<>>, parsed |-> FALSE, tree |-> NoNode]

\* parse_vars(expr): the sorted names, or LogicEvalError on a syntax error
parse_vars(text) ==
    LET p == ast_parse(Normalize(text))
    IN IF ~p.ok
       THEN [kind |-> "LogicEvalError", msg |-> "Syntax error in expression",
             vars |-> <<>>, parsed |-> FALSE, tree |-> NoNode]
       ELSE [kind |-> "value", msg |-> "", vars |-> sorted(collect_vars(<<p.tree>>, {})),
             parsed |-> TRUE, tree |-> p.tree]

\* variant: the first variable takes the least significant bit
mask_bit_lsb_first(mask, n, i) == (mask \div 2^i) % 2

\* (mask >> (n - i - 1)) & 1, for the variable at 0-based position i
mask_bit(mask, n, i) == (mask \div 2^(n - i - 1)) % 2

\* variant: no row at all when there is no variable
row_count_skips_empty(n) == IF n = 0 THEN 0 ELSE 2^n

\* 1 << n, the number of masks
row_count(n) == 2^n

\* the env dictionary of one row: env[v] = bool(bit), later entries overwrite
row_env(vars_, vals) ==
    [v \in {vars_[i] : i \in 1..Len(vars_)} |->
        LET last == CHOOSE i \in 1..Len(vars_) :
                        vars_[i] = v /\ \A j \in 1..Len(vars_) : vars_[j] = v => j <= i
        IN vals[last] = 1]

\* variant: 0 for true and 1 for false
row_result_inverted(value) == IF value THEN 0 ELSE 1

\* 1 if eval_expr(expr, env) else 0
row_result(value) == IF value THEN 1 ELSE 0

\* a returned table; built counts the rows appended during the call
TableValue(vars_, rows) ==
    [kind |-> "value", msg |-> "", vars |-> vars_, rows |-> rows, built |-> Len(rows)]
\* an exception leaves truth_table: nothing is returned
TableRaise(msg, built) ==
    [kind |-> "LogicEvalError", msg |-> msg, vars |-> <<>>, rows |-> <<>>, built |-> built]

\* variant: a failing row ends the loop and the rows built so far are returned
RECURSIVE table_rows_partial(_, _, _, _, _)
table_rows_partial(text, vars_, mask, rows, hasLegacy) ==
    LET n == Len(vars_)
    IN IF mask >= row_count(n) THEN TableValue(vars_, rows)
       ELSE LET vals == [i \in 1..n |-> mask_bit(mask, n, i - 1)]
                r == eval_expr(text, row_env(vars_, vals), hasLegacy)
            IN IF r.kind # "value" THEN TableValue(vars_, rows)
               ELSE table_rows_partial(text, vars_, mask + 1,
                        Append(rows, [vals |-> vals, res |-> row_result(r.value)]),
                        hasLegacy)

\* for mask in range(1 << n): the rows from mask on, appended to rows
RECURSIVE table_rows(_, _, _, _, _)
table_rows(text, vars_, mask, rows, hasLegacy) ==
    LET n == Len(vars_)
    IN IF mask >= row_count(n) THEN TableValue(vars_, rows)
       ELSE LET vals == [i \in 1..n |-> mask_bit(mask, n, i - 1)]
                r == eval_expr(text, row_env(vars_, vals), hasLegacy)
            IN IF r.kind # "value" THEN TableRaise(r.msg, Len(rows))
               ELSE table_rows(text, vars_, mask + 1,
                        Append(rows, [vals |-> vals, res |-> row_result(r.value)]),
                        hasLegacy)

NoTable ==
    [kind |-> "none", msg |-> "", vars |-> <<>>, rows |-> <<>>, built |-> 0,
     parsed |-> FALSE, tree |-> NoNode]

\* truth_table(expr): the variables and the rows, with the tree parse_vars parsed
truth_table(text, hasLegacy) ==
    LET pv == parse_vars(text)
    IN IF pv.kind # "value"
       THEN TableRaise(pv.msg, 0) @@ [parsed |-> FALSE, tree |-> NoNode]
       ELSE table_rows(text, pv.vars, 0, <<>>, hasLegacy)
                @@ [parsed |-> TRUE, tree |-> pv.tree]

-----------------------------------------------------------------------------
(* Expression texts handed to eval_expr: written out from trees in one of    *)
(* the three notations (lowercase words, uppercase words, symbols).          *)

MaxOperands == 2

Styles == {"lower", "upper", "symbol"}

and_text(style) ==
    IF style = "lower" THEN <<" ">> \o kw_and \o <<" ">>
    ELSE IF style = "upper" THEN <<" ", "A", "N", "D", " ">> ELSE <<Wedge>>
or_text(style) ==
    IF style = "lower" THEN <<" ">> \o kw_or \o <<" ">>
    ELSE IF style = "upper" THEN <<" ", "O", "R", " ">> ELSE <<Vee>>
not_text(style) ==
    IF style = "lower" THEN kw_not \o <<" ">>
    ELSE IF style = "upper" THEN <<"N", "O", "T", " ">> ELSE <<NotSign>>

RECURSIVE Unparse(_, _)
RECURSIVE Group(_, _)
RECURSIVE Join(_, _, _, _)

Group(n, style) ==
    IF n.type \in {"Name", "Constant"} THEN Unparse(n, style)
    ELSE <<"(">> \o Unparse(n, style) \o <<")">>

Join(kids, i, sep, style) ==
    IF i > Len(kids) THEN <<>>
    ELSE IF i = Len(kids) THEN Group(kids[i], style)
    ELSE Group(kids[i], style) \o sep \o Join(kids, i + 1, sep, style)

Unparse(n, style) ==
    IF n.type = "Name" THEN n.id
    ELSE IF n.type = "Constant"
    THEN IF n.const = "True" THEN kw_True
         ELSE IF n.const = "False" THEN kw_False
         ELSE IF n.const = "None" THEN kw_None
         ELSE IF n.const = "int" THEN n.id
         ELSE <<Quote>> \o n.id \o <<Quote>>
    ELSE IF n.type = "UnaryOp"
    THEN IF n.op = "Not" THEN not_text(style) \o Group(n.kids[1], style)
         ELSE <<"-">> \o Group(n.kids[1], style)
    ELSE IF n.type = "BoolOp"
    THEN Join(n.kids, 1, IF n.op = "And" THEN and_text(style) ELSE or_text(style), style)
    ELSE IF n.type = "BinOp" THEN Join(n.kids, 1, <<" ", "+", " ">>, style)
    ELSE IF n.type = "Compare" THEN Join(n.kids, 1, <<" ", "=", "=", " ">>, style)
    ELSE IF n.type = "Attribute" THEN Group(n.kids[1], style) \o <<".">> \o n.id
    ELSE IF n.type = "Subscript"
    THEN Group(n.kids[1], style) \o <<"[">> \o Unparse(n.kids[2], style) \o <<"]">>
    ELSE Group(n.kids[1], style) \o <<"(">>
            \o Join(SubSeq(n.kids, 2, Len(n.kids)), 1, <<",", " ">>, style) \o <<")">>

VarA == Name(<<"A">>)
VarB == Name(<<"B">>)
VarNames == {<<"A">>, <<"B">>}

GenBoolean == {VarA, VarB, Constant("True", <<>>), Constant("False", <<>>),
               UnaryOp("Not", VarA), UnaryOp("Not", VarB)}
GenLiterals == {Constant("None", <<>>), Constant("int", <<"1">>), Constant("str", <<"s">>)}
GenForbidden == {UnaryOp("USub", VarA), BinOp("Add", VarA, VarB), Compare(<<VarA, VarB>>),
                 Attribute(VarA, <<"b">>), Subscript(VarA, VarB), Call(Name(<<"f">>), <<VarA>>)}
GenOperands == GenBoolean \cup GenLiterals \cup GenForbidden

\* operands past the second of an and/or
GenLaterOperands == {VarB, UnaryOp("Not", VarA), Constant("None", <<>>)}

\* operand lists of an and/or: at most one operand is not a boolean expression
GenOperandLists ==
    {k \in SeqsUpTo(GenOperands, MaxOperands) :
        /\ Len(k) >= 2
        /\ Cardinality({i \in 1..Len(k) : k[i] \notin GenBoolean}) <= 1
        /\ \A i \in 3..Len(k) : k[i] \in GenLaterOperands}

\* and/or nested in and/or, and a negated and/or
GenNested ==
    LET Leaves == {VarA, VarB, UnaryOp("Not", VarA)}
        Inner == {BoolOp(op, <<x, y>>) : op \in {"And", "Or"}, x \in Leaves, y \in Leaves}
    IN {BoolOp(op, <<b, z>>) : op \in {"And", "Or"}, b \in Inner, z \in Leaves}
           \cup {UnaryOp("Not", b) : b \in Inner}

GenTrees ==
    GenOperands \cup {BoolOp(op, kids) : op \in {"And", "Or"}, kids \in GenOperandLists}
        \cup GenNested

Texts == {Unparse(t, style) : t \in GenTrees, style \in Styles}

Envs == UNION {[D -> BOOLEAN] : D \in SUBSET VarNames}

-----------------------------------------------------------------------------
(* The caller of eval_expr: one text, one environment, the call and the     *)
(* same call once more                                                       *)

EvalIdle ==
    /\ expr = <<>>
    /\ canon = <<>>
    /\ env = <<>>
    /\ legacy = FALSE
    /\ evalRet = NotCalled
    /\ evalAgain = NotCalled

EvalInputs ==
    /\ expr \in Texts
    /\ canon = <<>>
    /\ env \in Envs
    /\ legacy \in BOOLEAN
    /\ evalRet = NotCalled
    /\ evalAgain = NotCalled

CallEvalExpr ==
    /\ evalRet.kind = "none"
    /\ evalRet' = eval_expr(expr, env, legacy)
    /\ env' = evalRet'.env
    /\ UNCHANGED <<expr, legacy, evalAgain, canon>>
    /\ UNCHANGED <<sortVars, tableVars, catalogVars>>

CallEvalExprAgain ==
    /\ evalRet.kind # "none"
    /\ evalAgain.kind = "none"
    /\ evalAgain' = eval_expr(expr, env, legacy)
    /\ env' = evalAgain'.env
    /\ UNCHANGED <<expr, legacy, evalRet, canon>>
    /\ UNCHANGED <<sortVars, tableVars, catalogVars>>

-----------------------------------------------------------------------------
(* The caller of parse_vars and truth_table: one text, parse_vars called on  *)
(* it and then truth_table                                                   *)

MaxVariables == 3

TableLeaves ==
    {VarA, VarB, Name(<<"A", "1">>), UnaryOp("Not", VarB)}

\* an and/or of up to MaxVariables operands, or one operand alone
GenTable ==
    LET lists == SeqsUpTo(TableLeaves, MaxVariables)
    IN TableLeaves
           \cup {BoolOp(op, kids) : op \in {"And", "Or"}, kids \in {k \in lists : Len(k) >= 2}}

\* expressions with constants: no variable at all, or one beside a constant;
\* and a lowercase name beside an uppercase one
GenTableConstants ==
    LET T == Constant("True", <<>>)
        F == Constant("False", <<>>)
    IN {T, F, UnaryOp("Not", T), UnaryOp("Not", BoolOp("And", <<T, F>>))}
           \cup {BoolOp(op, <<x, y>>) : op \in {"And", "Or"}, x \in {T, F, VarA}, y \in {T, F}}
           \cup {BoolOp(op, <<Name(<<"a">>), VarB>>) : op \in {"And", "Or"}}

\* a forbidden construct or a non-boolean literal, alone or beside one operand
GenTableInvalid ==
    LET Bad == GenLiterals \cup GenForbidden
        Good == {VarA, Constant("True", <<>>), Constant("False", <<>>)}
    IN Bad \cup {BoolOp(op, <<x, y>>) : op \in {"And", "Or"}, x \in Good, y \in Bad}
           \cup {BoolOp(op, <<y, x>>) : op \in {"And", "Or"}, x \in Good, y \in Bad}

TableTexts ==
    {Unparse(t, style) : t \in GenTable \cup GenTableConstants \cup GenTableInvalid,
                         style \in Styles}

TableIdle ==
    /\ varsRet = NoVars
    /\ tableRet = NoTable

TableInputs ==
    /\ expr \in TableTexts
    /\ canon = <<>>
    /\ env = <<>>
    /\ legacy \in BOOLEAN
    /\ evalRet = NotCalled
    /\ evalAgain = NotCalled
    /\ varsRet = NoVars
    /\ tableRet = NoTable

CallParseVars ==
    /\ varsRet.kind = "none"
    /\ varsRet' = parse_vars(expr)
    /\ UNCHANGED tableRet
    /\ UNCHANGED <<sortVars, evalVars, catalogVars>>

CallTruthTable ==
    /\ varsRet.kind # "none"
    /\ tableRet.kind = "none"
    /\ tableRet' = truth_table(expr, legacy)
    /\ UNCHANGED varsRet
    /\ UNCHANGED <<sortVars, evalVars, catalogVars>>

-----------------------------------------------------------------------------
(* One expression in one of the three notations, handed to eval_expr,        *)
(* parse_vars and truth_table; canon is the same expression in lowercase     *)
(* keywords.  GRAND is a name that contains an uppercase operator word.      *)

VarGRAND == Name(<<"G", "R", "A", "N", "D">>)

NotationLeaves == {VarA, VarGRAND, UnaryOp("Not", VarA), UnaryOp("Not", VarGRAND)}

GenNotation ==
    NotationLeaves
        \cup {BoolOp(op, <<x, y>>) : op \in {"And", "Or"}, x \in NotationLeaves,
                                     y \in NotationLeaves}

\* environments over A, the name as written and the name as rewritten
NotationEnvs ==
    UNION {[D -> BOOLEAN] : D \in SUBSET {VarA.id, VarGRAND.id, Normalize(VarGRAND.id)}}

NotationInputs ==
    /\ \E t \in GenNotation, style \in Styles :
          /\ expr = Unparse(t, style)
          /\ canon = Unparse(t, "lower")
    /\ env \in NotationEnvs
    /\ legacy \in BOOLEAN
    /\ evalRet = NotCalled
    /\ evalAgain = NotCalled
    /\ varsRet = NoVars
    /\ tableRet = NoTable

-----------------------------------------------------------------------------
(* Recipe and RecipeManager: the catalog *)

MaxRecipes == 3
MaxOps == 2

None == [kind |-> "None"]

\* int(text) and float(text) on a numeral with an optional sign
RECURSIVE py_int(_)
py_int(text) ==
    IF text = <<>> THEN 0
    ELSE IF Head(text) = "-" THEN 0 - py_int(Tail(text))
    ELSE 10 * py_int(SubSeq(text, 1, Len(text) - 1)) + (ord(text[Len(text)]) - 1)

\* Recipe(name, category, price, time_minutes, ingredients, steps, calories=0,
\* difficulty=""): more than eight or fewer than six positional arguments raise
\* TypeError, the three numbers are clamped at zero
Recipe_init(args) ==
    IF Len(args) > 8 \/ Len(args) < 6 THEN [kind |-> "TypeError"]
    ELSE LET calories == IF Len(args) >= 7 THEN args[7] ELSE 0
         IN [kind |-> "value",
             value |-> [name |-> args[1],
                        category |-> args[2],
                        price |-> IF args[3] < 0 THEN 0 ELSE args[3],
                        time_minutes |-> IF args[4] < 0 THEN 0 ELSE args[4],
                        ingredients |-> args[5],
                        steps |-> args[6],
                        calories |-> IF calories < 0 THEN 0 ELSE calories,
                        difficulty |-> IF Len(args) >= 8 THEN args[8] ELSE ""]]

\* Recipe.from_dict(d): float() and int() raise ValueError on an empty cell
from_dict(d) ==
    IF d.price = <<>> \/ d.time_minutes = <<>> \/ d.calories = <<>>
    THEN [kind |-> "ValueError"]
    ELSE Recipe_init(<<d.name, d.category, py_int(d.price), py_int(d.time_minutes),
                       d.ingredients, d.steps, py_int(d.calories), d.difficulty>>)

\* RecipeManager.load_csv(path): the catalog afterwards.  A missing file and a
\* row that does not convert leave the catalog as it was.
load_csv(rs, file) ==
    IF ~file.exists THEN rs
    ELSE LET made == [i \in 1..Len(file.records) |-> from_dict(file.records[i])]
         IN IF \E i \in 1..Len(made) : made[i].kind # "value" THEN rs
            ELSE [i \in 1..Len(made) |-> made[i].value]

\* RecipeManager.add_recipe(recipe)
add_recipe(rs, recipe) == Append(rs, recipe)

\* variant: names are compared as written
delete_recipe_case_sensitive(rs, name) ==
    LET kept == SelectSeq(rs, LAMBDA r : r.name # name)
    IN [recipes |-> kept, ret |-> Len(kept) < Len(rs)]

\* RecipeManager.delete_recipe(name): the catalog afterwards and the value returned
delete_recipe(rs, name) ==
    LET kept == SelectSeq(rs, LAMBDA r : lower(r.name) # lower(name))
    IN [recipes |-> kept, ret |-> Len(kept) < Len(rs)]

\* the position of the first recipe with that name, 0 when there is none
find_index(rs, name) ==
    LET hits == {i \in 1..Len(rs) : lower(rs[i].name) = lower(name)}
    IN IF hits = {} THEN 0 ELSE CHOOSE i \in hits : \A j \in hits : i <= j

\* RecipeManager.find_by_name(name)
find_by_name(rs, name) ==
    IF find_index(rs, name) = 0 THEN None ELSE rs[find_index(rs, name)]

\* Recipe.__str__: name, category, price and time
Recipe_str(r) ==
    [name |-> r.name, category |-> r.category, price |-> r.price,
     time_minutes |-> r.time_minutes]

-----------------------------------------------------------------------------
(* The operations on the catalog: main() and the GUI's handlers.  A printed   *)
(* line is a message or what print(r) shows of a recipe.                      *)

\* names of recipes and ingredients, and the names of a recipe's environment
Word ==
    [Pie |-> <<"P", "i", "e">>,
     pie |-> <<"p", "i", "e">>,
     PIE |-> <<"P", "I", "E">>,
     Tea |-> <<"T", "e", "a">>,
     Chicken |-> <<"C", "h", "i", "c", "k", "e", "n">>,
     rice |-> <<"r", "i", "c", "e">>,
     contains_chicken |->
         <<"c", "o", "n", "t", "a", "i", "n", "s", "_", "c", "h", "i", "c", "k", "e", "n">>,
     cheap |-> <<"c", "h", "e", "a", "p">>,
     quick |-> <<"q", "u", "i", "c", "k">>,
     healthy |-> <<"h", "e", "a", "l", "t", "h", "y">>,
     bogus |-> <<"b", "o", "g", "u", "s">>]

\* rows of a recipes.csv, and what is entered for a new recipe: name, price,
\* time, ingredients and calories, the numbers as numerals, some negative
GoodRows ==
    {[name |-> t[1], category |-> "main", price |-> t[2], time_minutes |-> t[3],
      ingredients |-> t[4], steps |-> <<"cook">>, calories |-> t[5],
      difficulty |-> "Easy"] :
        t \in {<<Word.Pie, <<"3">>, <<"1", "0">>, <<Word.Chicken>>, <<"3", "0", "0">>>>,
               <<Word.pie, <<"-", "1">>, <<"2", "0">>, <<Word.rice>>, <<"-", "1">>>>,
               <<Word.Tea, <<"5">>, <<"-", "1">>, <<>>, <<"5", "0", "0">>>>}}

CatalogIdle ==
    /\ recipes = <<>>
    /\ prev = <<>>
    /\ call = [op |-> "none", arg |-> <<>>, ret |-> None]
    /\ cli = "start"
    /\ printed = <<>>
    /\ logicTable = <<>>
    /\ dialog = ""
    /\ ops = 0

\* main() starts: the manager is created and the file is loaded, if there is
\* one; a row of the file may have an empty price
LoadCsv ==
    /\ cli = "start"
    /\ \E exists \in BOOLEAN,
          records \in SeqsUpTo(GoodRows \cup {[r EXCEPT !.price = <<>>] : r \in {x \in GoodRows : x.name = Word.Tea}},
                               MaxRecipes) :
          /\ exists \/ records = <<>>
          /\ recipes' = load_csv(recipes, [exists |-> exists, records |-> records])
    /\ call' = [op |-> "load", arg |-> <<>>, ret |-> None]
    /\ prev' = recipes
    /\ cli' = "menu"
    /\ printed' = <<[text |-> "Loaded", recipe |-> <<>>]>>
    /\ UNCHANGED <<logicTable, dialog, ops>>
    /\ UNCHANGED <<sortVars, evalVars, tableVars>>

\* RecipeGUI.add_recipe: the dialog builds the recipe, the manager appends it
AddRecipe ==
    /\ cli = "menu"
    /\ ops < MaxOps
    /\ Len(recipes) < MaxRecipes
    /\ \E d \in GoodRows :
          LET made == Recipe_init(<<d.name, d.category, py_int(d.price),
                                    py_int(d.time_minutes), d.ingredients, d.steps,
                                    py_int(d.calories), d.difficulty>>)
          IN recipes' = add_recipe(recipes, made.value)
    /\ call' = [op |-> "add_recipe", arg |-> <<>>, ret |-> None]
    /\ prev' = recipes
    /\ ops' = ops + 1
    /\ UNCHANGED <<cli, printed, logicTable, dialog>>
    /\ UNCHANGED <<sortVars, evalVars, tableVars>>

\* option 3: Recipe(...) is called with nine positional arguments, the image
\* URL being the ninth; nothing catches what it raises
Option3 ==
    /\ cli = "menu"
    /\ ops < MaxOps
    /\ Len(recipes) < MaxRecipes
    /\ \E d \in GoodRows, img_url \in {""} :
          LET made == Recipe_init(<<d.name, d.category, py_int(d.price),
                                    py_int(d.time_minutes), d.ingredients, d.steps,
                                    py_int(d.calories), d.difficulty, img_url>>)
          IN IF made.kind = "value"
             THEN /\ recipes' = add_recipe(recipes, made.value)
                  /\ printed' = <<[text |-> "Added", recipe |-> <<>>]>>
                  /\ cli' = "menu"
             ELSE /\ recipes' = recipes
                  /\ printed' = <<>>
                  /\ cli' = made.kind
    /\ call' = [op |-> "option3", arg |-> <<>>, ret |-> None]
    /\ prev' = recipes
    /\ ops' = ops + 1
    /\ UNCHANGED <<logicTable, dialog>>
    /\ UNCHANGED <<sortVars, evalVars, tableVars>>

\* the assignments of option 4 to the recipe found: an empty line leaves the
\* value as it is, a numeral is converted by float() or int() and assigned
edited(r, e) ==
    [r EXCEPT !.name = IF e.name = <<>> THEN r.name ELSE e.name,
              !.price = IF e.price = <<>> THEN r.price ELSE py_int(e.price),
              !.time_minutes = IF e.time_minutes = <<>> THEN r.time_minutes
                               ELSE py_int(e.time_minutes),
              !.calories = IF e.calories = <<>> THEN r.calories
                           ELSE py_int(e.calories)]

\* option 4: the first recipe with the name is changed in place; what is typed
\* is a new name, price, time or calories, or nothing
Option4 ==
    /\ cli = "menu"
    /\ ops < MaxOps
    /\ \E name \in {Word.Pie, Word.pie, Word.PIE, Word.Tea},
          t \in {<<<<>>, <<>>, <<>>, <<>>>>,
                 <<Word.Tea, <<>>, <<>>, <<>>>>,
                 <<<<>>, <<"5">>, <<>>, <<>>>>,
                 <<<<>>, <<"-", "1">>, <<>>, <<>>>>,
                 <<<<>>, <<>>, <<"-", "1">>, <<>>>>,
                 <<<<>>, <<>>, <<>>, <<"-", "1">>>>} :
          LET i == find_index(recipes, name)
              e == [name |-> t[1], price |-> t[2], time_minutes |-> t[3],
                    calories |-> t[4]]
          IN IF i = 0
             THEN /\ recipes' = recipes
                  /\ printed' = <<[text |-> "Not found", recipe |-> <<>>]>>
             ELSE /\ recipes' = [recipes EXCEPT ![i] = edited(recipes[i], e)]
                  /\ printed' = <<[text |-> "Updated", recipe |-> <<>>]>>
    /\ call' = [op |-> "option4", arg |-> <<>>, ret |-> None]
    /\ prev' = recipes
    /\ ops' = ops + 1
    /\ UNCHANGED <<cli, logicTable, dialog>>
    /\ UNCHANGED <<sortVars, evalVars, tableVars>>

\* option 5
Option5 ==
    /\ cli = "menu"
    /\ ops < MaxOps
    /\ \E name \in {Word.Pie, Word.pie, Word.PIE, Word.Tea} :
          LET d == delete_recipe(recipes, name)
          IN /\ recipes' = d.recipes
             /\ call' = [op |-> "delete_recipe", arg |-> name, ret |-> d.ret]
             /\ printed' = <<[text |-> IF d.ret THEN "Deleted" ELSE "Not found",
                              recipe |-> <<>>]>>
    /\ prev' = recipes
    /\ ops' = ops + 1
    /\ UNCHANGED <<cli, logicTable, dialog>>
    /\ UNCHANGED <<sortVars, evalVars, tableVars>>

-----------------------------------------------------------------------------
(* The recipe's environment, sorting (option 11) and logical search *)

\* the environment built for one recipe by option 9, option 11 and logic_search
recipe_env(r) ==
    LET chicken == lower(Word.Chicken)
        in_lower(s) == \E k \in 0..(Len(s) - Len(chicken)) :
                           SubSeq(lower(s), k + 1, k + Len(chicken)) = chicken
    IN (Word.contains_chicken :>
            (\E i \in 1..Len(r.ingredients) : in_lower(r.ingredients[i])))
       @@ (Word.cheap :> (r.price < 4))
       @@ (Word.quick :> (r.time_minutes <= 15))
       @@ (Word.healthy :> (r.calories < 400))

\* keyfunc(r) of option 11: (primary, secondary); what eval_expr raises becomes 1
keyfunc(r, key, text, hasLegacy) ==
    LET primary == IF key = "price" THEN r.price ELSE r.time_minutes
        v == eval_expr(text, recipe_env(r), hasLegacy)
        secondary == IF text = <<>> THEN 0
                     ELSE IF v.kind = "value" /\ v.value = TRUE THEN 0 ELSE 1
    IN TupleKey(primary, secondary)

\* keyfunc on each recipe of a list
RECURSIVE keyfunc_each(_, _, _, _)
keyfunc_each(rs, key, text, hasLegacy) ==
    IF rs = <<>> THEN <<>>
    ELSE <<keyfunc(Head(rs), key, text, hasLegacy)>>
             \o keyfunc_each(Tail(rs), key, text, hasLegacy)

\* option 11: the catalog becomes the list the chosen strategy returns; the
\* expression of the secondary key may be left blank
Option11 ==
    /\ cli = "menu"
    /\ ops < MaxOps
    /\ \E alg \in {"bubble", "merge"}, key \in {"price", "time"},
          text \in {<<>>, Word.quick} :
       \E values \in {keyfunc_each(recipes, key, text, legacy)} :
          LET keys == [r \in {recipes[i] : i \in 1..Len(recipes)} |->
                          values[CHOOSE i \in 1..Len(recipes) : recipes[i] = r]]
              sorted_list == IF alg = "bubble"
                             THEN BubbleSort_sort(<<recipes>>, 1, keys, FALSE)
                             ELSE MergeSort_sort(<<recipes>>, 1, keys, FALSE, NoLog)
          IN recipes' = sorted_list.heap[sorted_list.ret]
    /\ call' = [op |-> "option11", arg |-> <<>>, ret |-> None]
    /\ printed' = <<[text |-> "Sorted", recipe |-> <<>>]>>
    /\ prev' = recipes
    /\ ops' = ops + 1
    /\ UNCHANGED <<cli, logicTable, dialog>>
    /\ UNCHANGED <<sortVars, evalVars, tableVars>>

\* str.strip(): without the spaces at both ends
RECURSIVE strip(_)
strip(text) ==
    IF text = <<>> THEN text
    ELSE IF Head(text) = " " THEN strip(Tail(text))
    ELSE IF text[Len(text)] = " " THEN strip(SubSeq(text, 1, Len(text) - 1))
    ELSE text

\* variant: the recipes matched before the failure are kept
RECURSIVE option9_loop_keeps_matched(_, _, _, _, _)
option9_loop_keeps_matched(rs, i, text, hasLegacy, matched) ==
    IF i > Len(rs) THEN [matched |-> matched, error |-> FALSE]
    ELSE LET v == eval_expr(text, recipe_env(rs[i]), hasLegacy)
         IN IF v.kind # "value" THEN [matched |-> matched, error |-> TRUE]
            ELSE option9_loop_keeps_matched(rs, i + 1, text, hasLegacy,
                     IF v.value = TRUE THEN Append(matched, rs[i]) ELSE matched)

\* the loop of option 9 from recipe i on: what eval_expr raises empties
\* matched and ends the loop
RECURSIVE option9_loop(_, _, _, _, _)
option9_loop(rs, i, text, hasLegacy, matched) ==
    IF i > Len(rs) THEN [matched |-> matched, error |-> FALSE]
    ELSE LET v == eval_expr(text, recipe_env(rs[i]), hasLegacy)
         IN IF v.kind # "value" THEN [matched |-> <<>>, error |-> TRUE]
            ELSE option9_loop(rs, i + 1, text, hasLegacy,
                     IF v.value = TRUE THEN Append(matched, rs[i]) ELSE matched)

\* the loop of logic_search from recipe i on: a LogicEvalError ends the search
RECURSIVE logic_search_loop(_, _, _, _, _)
logic_search_loop(rs, i, text, hasLegacy, results) ==
    IF i > Len(rs) THEN [results |-> results, error |-> FALSE]
    ELSE LET v == eval_expr(text, recipe_env(rs[i]), hasLegacy)
         IN IF v.kind # "value" THEN [results |-> results, error |-> TRUE]
            ELSE logic_search_loop(rs, i + 1, text, hasLegacy,
                     IF v.value = TRUE THEN Append(results, rs[i]) ELSE results)

\* what is typed as the expression of a search
SearchTexts ==
    {<<>>,
     Word.cheap,
     <<" ">> \o Word.quick,
     Word.cheap \o <<" ">> \o kw_or \o <<" ">> \o Word.bogus,
     kw_not \o <<" ">> \o Word.contains_chicken}

\* option 9: the matched recipes are printed, or the error and then the
\* message that nothing matched
Option9 ==
    /\ cli = "menu"
    /\ \E text \in SearchTexts :
       \E found \in {option9_loop(recipes, 1, text, legacy, <<>>)} :
          /\ call' = [op |-> "option9", arg |-> text, ret |-> None]
          /\ printed' =
                 (IF found.error
                  THEN <<[text |-> "Error evaluating expression", recipe |-> <<>>]>>
                  ELSE <<>>)
                 \o (IF found.matched # <<>>
                     THEN [i \in 1..Len(found.matched) |->
                              [text |-> "", recipe |-> <<Recipe_str(found.matched[i])>>]]
                     ELSE <<[text |-> "No recipes matched the expression",
                             recipe |-> <<>>]>>)
    /\ prev' = recipes
    /\ UNCHANGED <<recipes, cli, logicTable, dialog, ops>>
    /\ UNCHANGED <<sortVars, evalVars, tableVars>>

\* RecipeGUI.logic_search: the results table is loaded only when every recipe
\* was evaluated
LogicSearch ==
    /\ cli = "menu"
    /\ \E text \in SearchTexts :
       \E found \in {logic_search_loop(recipes, 1, strip(text), legacy, <<>>)} :
          /\ call' = [op |-> "logic_search", arg |-> strip(text), ret |-> None]
          /\ IF strip(text) = <<>>
             THEN /\ dialog' = "Input Error"
                  /\ logicTable' = logicTable
             ELSE IF found.error
             THEN /\ dialog' = "Logic Error"
                  /\ logicTable' = logicTable
             ELSE /\ dialog' = ""
                  /\ logicTable' = found.results
    /\ prev' = recipes
    /\ UNCHANGED <<recipes, cli, printed, ops>>
    /\ UNCHANGED <<sortVars, evalVars, tableVars>>

CatalogInit == CatalogIdle /\ SortIdle /\ EvalIdle /\ TableIdle

-----------------------------------------------------------------------------
(* Specifications *)

SortInit == SortInputs /\ EvalIdle /\ TableIdle /\ CatalogIdle
SortNext == CallBubbleSort \/ CallMergeSort
SortSpec == SortInit /\ [][SortNext]_vars

EvalInit == EvalInputs /\ SortIdle /\ TableIdle /\ CatalogIdle
EvalNext == CallEvalExpr \/ CallEvalExprAgain
EvalSpec == EvalInit /\ [][EvalNext]_vars

TableInit == TableInputs /\ SortIdle /\ CatalogIdle
TableNext == CallParseVars \/ CallTruthTable
TableSpec == TableInit /\ [][TableNext]_vars

NotationInit == NotationInputs /\ SortIdle /\ CatalogIdle
NotationNext == CallEvalExpr \/ CallParseVars \/ CallTruthTable
NotationSpec == NotationInit /\ [][NotationNext]_vars

CatalogSpec ==
    CatalogInit
        /\ [][LoadCsv \/ AddRecipe \/ Option3 \/ Option4 \/ Option5 \/ Option11]_vars

SearchSpec == CatalogInit /\ [][LoadCsv \/ Option9 \/ LogicSearch]_vars

-----------------------------------------------------------------------------
(* Properties of the sorting strategies (SortSpec) *)

\* the call has returned a list
BubbleDone == bubbleRet \notin {NoRef, Raised}
MergeDone == mergeRet \notin {NoRef, Raised}
BubbleOut == heap[bubbleRet]
MergeOut == heap[mergeRet]

\* the elements of s whose key is k, in the order of s
KeyClass(s, k) == SelectSeq(s, LAMBDA x : key_func[x] = k)

Stable(out) == \A k \in Keys \cup TupleKeys : KeyClass(out, k) = KeyClass(input0, k)

Count(s, x) == Cardinality({i \in 1..Len(s) : s[i] = x})

IsPermutation(out) ==
    /\ Len(out) = Len(input0)
    /\ \A x \in Items : Count(out, x) = Count(input0, x)

Ordered(out) ==
    \A k \in 1..(Len(out) - 1) :
        IF reverse THEN py_ge(key_func[out[k]], key_func[out[k + 1]])
        ELSE py_le(key_func[out[k]], key_func[out[k + 1]])

\* the input holds two different elements with equal keys
HasTie == \E i, j \in 1..Len(input0) :
              i < j /\ input0[i] # input0[j] /\ key_func[input0[i]] = key_func[input0[j]]

\* C1: both strategies are stable for both values of reverse: the elements of
\* each key class appear in the output in their input order (never reversed)
C1_Stable ==
    /\ BubbleDone => Stable(BubbleOut)
    /\ MergeDone => Stable(MergeOut)

C1_Witness ==
    /\ BubbleDone /\ MergeDone /\ reverse /\ HasTie
    /\ BubbleOut # input0 /\ MergeOut # input0

\* C2: MergeSort.sort and BubbleSort.sort return the same sequence, position
\* by position, for the same list, key function and reverse flag
C2_SameOrdering == BubbleDone /\ MergeDone => BubbleOut = MergeOut

C2_Witness ==
    /\ BubbleDone /\ MergeDone /\ HasTie
    /\ Len(input0) >= 3 /\ BubbleOut # input0 /\ MergeOut = BubbleOut

\* C3: each output has the length of the input and holds every element as
\* many times as the input does
C3_Permutation ==
    /\ BubbleDone => IsPermutation(BubbleOut)
    /\ MergeDone => IsPermutation(MergeOut)

C3_Witness ==
    /\ BubbleDone /\ MergeDone /\ BubbleOut # input0 /\ MergeOut # input0
    /\ \E x \in Items : Count(input0, x) >= 2

\* C4: each output is ordered by key, ascending when reverse is false and
\* descending when reverse is true
C4_Ordered ==
    /\ BubbleDone => Ordered(BubbleOut)
    /\ MergeDone => Ordered(MergeOut)

C4_Witness ==
    /\ BubbleDone /\ MergeDone /\ ~Ordered(input0) /\ reverse
    /\ Len(input0) >= 3 /\ Ordered(BubbleOut) /\ Ordered(MergeOut)

\* C5: a call leaves the caller's list as it was and returns a list object
\* other than the input, whatever the length of the input
C5_InputNotMutated ==
    /\ heap # <<>> => heap[items] = input0
    /\ BubbleDone => bubbleRet # items
    /\ MergeDone => mergeRet # items

C5_Witness ==
    /\ BubbleDone /\ MergeDone /\ BubbleOut # input0 /\ MergeOut # input0
    /\ heap[items] = input0

BubbleCalled == bubbleRet # NoRef
MergeCalled == mergeRet # NoRef

IsTupleKeyFunc == \A x \in Items : key_func[x].t = "tuple"
Primary(x) == key_func[x].v[1]
SecondaryBit(x) == key_func[x].v[2]

\* lower primary first; within a primary, secondaryBit 0 before 1; within a
\* (primary, secondaryBit) bucket, the input order
Bucketed(out) ==
    /\ \A i, j \in 1..Len(out) :
          i < j => /\ Primary(out[i]) <= Primary(out[j])
                   /\ Primary(out[i]) = Primary(out[j])
                          => SecondaryBit(out[i]) <= SecondaryBit(out[j])
    /\ \A k \in TupleKeys : KeyClass(out, k) = KeyClass(input0, k)

\* C18: an ascending sort by a key function returning (primary, secondaryBit)
\* puts lower primaries first, secondaryBit 0 before 1 within a primary, and
\* keeps the input order within each bucket, with both strategies
C18_TupleKeyOrdering ==
    IsTupleKeyFunc /\ ~reverse =>
        /\ BubbleDone => Bucketed(BubbleOut)
        /\ MergeDone => Bucketed(MergeOut)

\* equal primaries arrive with bit 1 before bit 0, and a higher primary before a lower
C18_Witness ==
    /\ IsTupleKeyFunc /\ ~reverse /\ BubbleDone /\ MergeDone
    /\ Bucketed(BubbleOut) /\ Bucketed(MergeOut)
    /\ \E i, j \in 1..Len(input0) :
          /\ i < j /\ Primary(input0[i]) = Primary(input0[j])
          /\ SecondaryBit(input0[i]) = 1 /\ SecondaryBit(input0[j]) = 0
    /\ \E i, j \in 1..Len(input0) : i < j /\ Primary(input0[i]) > Primary(input0[j])

\* C19: on an input of length 0 or 1 both strategies return a list equal to
\* the input and neither call the key function nor compare
C19_ShortInputNoCalls ==
    Len(input0) < 2 =>
        /\ BubbleCalled => /\ BubbleDone /\ BubbleOut = input0
                           /\ bubbleLog.calls = <<>> /\ bubbleLog.cmps = 0
        /\ MergeCalled => /\ MergeDone /\ MergeOut = input0
                          /\ mergeLog.calls = <<>> /\ mergeLog.cmps = 0

\* a single item on which the key function would raise
C19_Witness ==
    /\ Len(input0) = 1 /\ key_func[input0[1]] = KeyRaises
    /\ BubbleDone /\ MergeDone /\ BubbleOut = input0 /\ MergeOut = input0

\* the key function raised at call number i of the log
RaisedAt(log, i) == key_func[log.calls[i]] = KeyRaises

\* the call ended with the key function's exception at its first failing call:
\* nothing was called afterwards, no list was returned, the input is as before
Propagated(ret, log) ==
    /\ ret = Raised
    /\ \A i \in 1..Len(log.calls) : RaisedAt(log, i) => i = Len(log.calls)
    /\ heap[items] = input0

\* C20: when the key function raises during a sort, the call ends with that
\* exception at once (no further key call, no list returned) and the caller's
\* list is as it was; a call in which no key call raised returns a list
C20_KeyFailurePropagates ==
    /\ BubbleCalled =>
          IF \E i \in 1..Len(bubbleLog.calls) : RaisedAt(bubbleLog, i)
          THEN Propagated(bubbleRet, bubbleLog) ELSE BubbleDone
    /\ MergeCalled =>
          IF \E i \in 1..Len(mergeLog.calls) : RaisedAt(mergeLog, i)
          THEN Propagated(mergeRet, mergeLog) ELSE MergeDone

\* the key function raised after the sort had already swapped in its copy
C20_Witness ==
    /\ bubbleRet = Raised /\ mergeRet = Raised
    /\ bubbleLog.cmps >= 1 /\ mergeLog.cmps >= 1
    /\ \E r \in 1..Len(heap) : Len(heap[r]) = Len(input0) /\ heap[r] # input0
    /\ heap[items] = input0

\* the key function raises on no element of the input
KeyTotal == \A i \in 1..Len(input0) : key_func[input0[i]] # KeyRaises

\* C25: BubbleSort.sort stops after the first pass in which no swap occurs and
\* runs at most n passes over n elements, each of at most n - 1 comparisons;
\* on an input already in the requested order it makes n - 1 comparisons, in
\* one pass, and returns
C25_EarlyExitAndBoundedPasses ==
    BubbleCalled =>
        LET n == Len(input0)
            sw == bubbleLog.swaps
        IN /\ bubbleLog.passes <= n
           /\ bubbleLog.cmps <= bubbleLog.passes * (n - 1)
           /\ \A k \in 1..Len(sw) : ~sw[k] => k = Len(sw)
           /\ BubbleDone /\ n >= 2 => /\ Len(sw) = bubbleLog.passes
                                      /\ bubbleLog.passes < n => ~sw[Len(sw)]
           /\ KeyTotal /\ Ordered(input0) /\ n >= 1
                 => /\ BubbleDone /\ BubbleOut = input0
                    /\ bubbleLog.cmps = n - 1
                    /\ bubbleLog.passes = (IF n >= 2 THEN 1 ELSE 0)

\* an ordered input of the largest length with a tie, sorted in one pass
C25_Witness ==
    /\ BubbleDone /\ KeyTotal
    /\ Len(input0) = MaxLen /\ Ordered(input0) /\ HasTie
    /\ input0[1] # input0[MaxLen]
    /\ bubbleLog.passes = 1 /\ bubbleLog.cmps = MaxLen - 1

-----------------------------------------------------------------------------
(* Properties of eval_expr (EvalSpec) *)

EvalDone == evalRet.kind # "none"
EvalParsed == EvalDone /\ evalRet.parsed
EvalNodes == ast_walk(evalRet.tree)
EvalFailed == evalRet.kind = "LogicEvalError"
EvalBody == evalRet.tree.kids[1]

\* C6: an expression that references a name absent from the environment
\* makes eval_expr fail, wherever the name occurs
C6_UnknownVariableFails ==
    EvalParsed /\ (\E n \in EvalNodes : n.type = "Name" /\ n.id \notin DOMAIN env)
        => EvalFailed

C8_CallFails ==
    EvalParsed /\ (\E n \in EvalNodes : n.type = "Call") => EvalFailed

\* C9: a literal other than True and False anywhere in the expression makes
\* eval_expr fail
C9_NonBooleanLiteralFails ==
    EvalParsed /\ (\E n \in EvalNodes : n.type = "Constant" /\ n.const \notin {"True", "False"})
        => EvalFailed

\* C10: a unary operator other than not anywhere in the expression makes
\* eval_expr fail
C10_OtherUnaryFails ==
    EvalParsed /\ (\E n \in EvalNodes : n.type = "UnaryOp" /\ n.op # "Not") => EvalFailed

-----------------------------------------------------------------------------
(* Truth values and purity of eval_expr (EvalSpec) *)

\* the tree is built only from names, True, False, not, and, or
IsBooleanTree(tree) ==
    \A n \in ast_walk(tree) :
        \/ n.type \in {"Expression", "Name", "BoolOp"}
        \/ n.type = "UnaryOp" /\ n.op = "Not"
        \/ n.type = "Constant" /\ n.const \in {"True", "False"}

\* the names that occur in the tree
NamesOf(tree) == {n.id : n \in {m \in ast_walk(tree) : m.type = "Name"}}

\* the truth value of a boolean tree under e, every operand evaluated
RECURSIVE Truth(_, _)
Truth(n, e) ==
    IF n.type = "Expression" THEN Truth(n.kids[1], e)
    ELSE IF n.type = "Name" THEN e[n.id]
    ELSE IF n.type = "Constant" THEN n.const = "True"
    ELSE IF n.type = "UnaryOp" THEN ~Truth(n.kids[1], e)
    ELSE IF n.op = "And" THEN \A i \in 1..Len(n.kids) : Truth(n.kids[i], e)
    ELSE \E i \in 1..Len(n.kids) : Truth(n.kids[i], e)

\* C11: for an expression built only from variables, True, False, not, and,
\* or and parentheses, under an environment that binds all of its variables,
\* eval_expr returns the standard truth value, the one obtained by evaluating
\* every operand without short-circuiting
C11_StandardTruthValue ==
    EvalParsed /\ IsBooleanTree(evalRet.tree) /\ NamesOf(evalRet.tree) \subseteq DOMAIN env
        => evalRet.kind = "value" /\ evalRet.value = Truth(evalRet.tree, env)

\* an or of an and and a negation, whose first operand is false and whose
\* value comes from the second
C11_Witness ==
    /\ EvalParsed /\ evalRet.kind = "value" /\ evalRet.value
    /\ IsBooleanTree(evalRet.tree) /\ NamesOf(evalRet.tree) \subseteq DOMAIN env
    /\ EvalBody.type = "BoolOp" /\ EvalBody.op = "Or"
    /\ EvalBody.kids[1].type = "BoolOp" /\ EvalBody.kids[1].op = "And"
    /\ ~Truth(EvalBody.kids[1], env)
    /\ EvalBody.kids[2].type = "UnaryOp"

\* same boolean, or same failure
SameOutcome(r1, r2) ==
    r1.kind = r2.kind /\ r1.value = r2.value /\ r1.msg = r2.msg

\* C16: eval_expr leaves the supplied environment as it was, whether it
\* returns or fails, and the second call with the same text and environment
\* has the outcome of the first
C16_SideEffectFree ==
    [][/\ env' = env
       /\ (evalAgain'.kind # "none" => SameOutcome(evalAgain', evalRet'))]_vars

\* both calls made; they looked up both variables of a full environment
C16_Witness ==
    /\ evalAgain.kind = "value"
    /\ Len(evalAgain.looked) >= 2
    /\ DOMAIN env = VarNames
    /\ \E i, j \in 1..Len(evalAgain.looked) : evalAgain.looked[i] # evalAgain.looked[j]

\* e1 and e2 bind the same names of N, to the same values
AgreeOn(e1, e2, N) ==
    \A x \in N : /\ (x \in DOMAIN e1) = (x \in DOMAIN e2)
                 /\ x \in DOMAIN e1 => e1[x] = e2[x]

\* C28: the outcome of eval_expr depends only on the bindings of the names
\* that occur in the expression: an environment that agrees with env on those
\* names gives the same outcome, whatever else it binds or omits
C28_OnlyOccurringNames ==
    EvalDone =>
        \A e2 \in {e \in Envs : e # env /\ AgreeOn(e, env, NamesOf(evalRet.tree))} :
            SameOutcome(evalRet, eval_expr(expr, e2, legacy))

\* an expression of A alone that returned, in an environment that binds B too
C28_Witness ==
    /\ EvalParsed /\ evalRet.kind = "value" /\ evalRet.value
    /\ NamesOf(evalRet.tree) = {<<"A">>}
    /\ EvalBody.type = "BoolOp"
    /\ DOMAIN env = VarNames /\ ~env[<<"B">>]

-----------------------------------------------------------------------------
(* Properties of parse_vars and truth_table (TableSpec) *)

VarsDone == varsRet.kind # "none"
TableDone == tableRet.kind # "none"
TableReturned == tableRet.kind = "value"
TableFailed == tableRet.kind = "LogicEvalError"

\* the expression is valid: it parsed into a tree of names, True, False, not,
\* and, or
TableValid == TableDone /\ tableRet.parsed /\ IsBooleanTree(tableRet.tree)

\* the number a bit vector denotes, first bit most significant
RECURSIVE BitsValue(_)
BitsValue(bits) ==
    IF bits = <<>> THEN 0
    ELSE 2 * BitsValue(SubSeq(bits, 1, Len(bits) - 1)) + bits[Len(bits)]

StrictlyAscending(names) ==
    \A i \in 1..Len(names) : \A j \in 1..Len(names) : i < j => str_lt(names[i], names[j])

\* C12: for a valid expression with n distinct variables truth_table returns
\* exactly 2^n rows, and row number k (from 0) carries the n-bit binary
\* representation of k, the most significant bit belonging to the first,
\* lexically smallest variable
C12_RowsEnumerateMasks ==
    TableValid =>
        LET n == Cardinality(NamesOf(tableRet.tree))
        IN /\ TableReturned
           /\ Len(tableRet.vars) = n
           /\ StrictlyAscending(tableRet.vars)
           /\ Len(tableRet.rows) = 2^n
           /\ \A k \in 1..Len(tableRet.rows) :
                 /\ Len(tableRet.rows[k].vals) = n
                 /\ \A i \in 1..n : tableRet.rows[k].vals[i] \in {0, 1}
                 /\ BitsValue(tableRet.rows[k].vals) = k - 1

\* a table of three variables, eight rows
C12_Witness ==
    /\ TableValid /\ TableReturned
    /\ Len(tableRet.vars) = 3
    /\ Len(tableRet.rows) = 8
    /\ tableRet.rows[4].vals = <<0, 1, 1>>

\* the environment a returned row stands for
RowEnvOf(row) ==
    [v \in {tableRet.vars[i] : i \in 1..Len(tableRet.vars)} |->
        \E i \in 1..Len(tableRet.vars) : tableRet.vars[i] = v /\ row.vals[i] = 1]

\* C13: in every returned row the result is 1 if eval_expr of the same text
\* under the environment {variables[i] -> bits[i] = 1} is true and 0
\* otherwise; bits has one entry per variable and the result is 0 or 1
C13_RowResultIsEval ==
    TableReturned =>
        \A k \in 1..Len(tableRet.rows) :
            LET row == tableRet.rows[k]
                r == eval_expr(expr, RowEnvOf(row), legacy)
            IN /\ Len(row.vals) = Len(tableRet.vars)
               /\ row.res \in {0, 1}
               /\ (row.res = 1) = (r.kind = "value" /\ r.value)

\* a table with rows of both results
C13_Witness ==
    /\ TableReturned
    /\ Len(tableRet.vars) >= 2
    /\ \E j, k \in 1..Len(tableRet.rows) : tableRet.rows[j].res = 1 /\ tableRet.rows[k].res = 0

\* C14: for an expression with no variable, built from boolean constants,
\* truth_table returns an empty variable list and exactly one row, with an
\* empty bit vector and the constant value of the expression as result
C14_ZeroVariables ==
    TableValid /\ NamesOf(tableRet.tree) = {} =>
        /\ TableReturned
        /\ tableRet.vars = <<>>
        /\ Len(tableRet.rows) = 1
        /\ tableRet.rows[1].vals = <<>>
        /\ tableRet.rows[1].res = (IF Truth(tableRet.tree, <<>>) THEN 1 ELSE 0)

\* a combination of constants whose value is false
C14_Witness ==
    /\ TableValid /\ TableReturned
    /\ NamesOf(tableRet.tree) = {}
    /\ tableRet.tree.kids[1].type = "BoolOp"
    /\ Len(tableRet.rows) = 1 /\ tableRet.rows[1].res = 0

SomeRowFails ==
    \E e \in [NamesOf(tableRet.tree) -> BOOLEAN] : eval_expr(expr, e, legacy).kind # "value"

\* C17: on a text that does not parse truth_table fails with LogicEvalError
\* before any row is built, and when the evaluation of any row fails the
\* call fails and returns no rows
C17_AllOrNothing ==
    TableDone =>
        /\ ~tableRet.parsed => TableFailed /\ tableRet.built = 0 /\ tableRet.rows = <<>>
        /\ tableRet.parsed /\ SomeRowFails
              => TableFailed /\ tableRet.rows = <<>> /\ tableRet.vars = <<>>

\* the call failed after it had built a row
C17_Witness ==
    /\ TableFailed /\ tableRet.parsed
    /\ tableRet.built >= 1
    /\ tableRet.rows = <<>>

\* the names an evaluation looked up
Looked(r) == {r.looked[i] : i \in 1..Len(r.looked)}

\* a function call, a literal other than True and False, a unary operator
\* other than not, arithmetic, a comparison
IsForbidden(n) ==
    \/ n.type \in {"Call", "BinOp", "Compare"}
    \/ n.type = "UnaryOp" /\ n.op # "Not"
    \/ n.type = "Constant" /\ n.const \notin {"True", "False"}

\* C26: truth_table fails and returns no table for every text that contains
\* a forbidden construct; the name of a called function is never among the
\* variables of a table
C26_ForbiddenTextFails ==
    TableDone /\ tableRet.parsed =>
        /\ (\E n \in ast_walk(tableRet.tree) : IsForbidden(n))
              => TableFailed /\ tableRet.rows = <<>>
        /\ \A n \in ast_walk(tableRet.tree) :
              n.type = "Call" /\ n.kids[1].type = "Name"
                  => \A i \in 1..Len(tableRet.vars) : tableRet.vars[i] # n.kids[1].id

\* C27: truth_table never fails with an unknown variable: under every
\* assignment of the listed variables eval_expr of the same text looks up
\* listed names only
C27_NoUnknownVariable ==
    /\ TableDone => tableRet.msg # "Unknown variable"
    /\ varsRet.kind = "value" =>
          LET listed == {varsRet.vars[i] : i \in 1..Len(varsRet.vars)}
          IN \A e \in [listed -> BOOLEAN] :
                LET r == eval_expr(expr, e, legacy)
                IN r.msg # "Unknown variable" /\ Looked(r) \subseteq listed

\* a table whose rows look up a name under a negation and a name with a digit
C27_Witness ==
    /\ TableReturned
    /\ Len(tableRet.vars) = 2
    /\ tableRet.vars[1] = <<"A", "1">>
    /\ \E n \in ast_walk(tableRet.tree) : n.type = "UnaryOp" /\ n.op = "Not"
    /\ \E k \in 1..Len(tableRet.rows) : tableRet.rows[k].res = 1

-----------------------------------------------------------------------------
(* Notations and rewriting (NotationSpec) *)

\* the returned table, or the failure
SameTable(t1, t2) ==
    t1.kind = t2.kind /\ t1.msg = t2.msg /\ t1.vars = t2.vars /\ t1.rows = t2.rows

\* C21: the text written with AND/OR/NOT or with the symbols gets from
\* eval_expr the result, and from truth_table the table, of the text written
\* with and/or/not
C21_NotationsEquivalent ==
    /\ EvalDone => SameOutcome(evalRet, eval_expr(canon, env, legacy))
    /\ TableDone => SameTable(tableRet, truth_table(canon, legacy))

\* the variable names as the text was written: the NAME tokens of canon
WrittenNames ==
    LET ts == Tokens(canon, 1)
    IN {ts[i].v : i \in {j \in 1..Len(ts) : ts[j].k = "NAME"}}

\* the text holds AND, OR or NOT
HasWord(x) ==
    \E i \in 1..Len(x) : \E w \in {<<"A", "N", "D">>, <<"O", "R">>, <<"N", "O", "T">>} :
        i + Len(w) - 1 <= Len(x) /\ SubSeq(x, i, i + Len(w) - 1) = w

\* y is x with letters of x in lowercase and none of the three words left
RewrittenFrom(y, x) == lower(y) = lower(x) /\ ~HasWord(y) /\ (~HasWord(x) => y = x)

-----------------------------------------------------------------------------
(* Properties of the catalog (CatalogSpec) *)

Deleted == call.op = "delete_recipe"

\* the two names are equal when case is ignored
SameName(a, b) == lower(a) = lower(b)

\* C23: delete_recipe(name) leaves exactly the recipes whose name differs from
\* name when case is ignored, in their previous order; it returns True exactly
\* when the catalog held a recipe with that name, the catalog is as it was when
\* it returns False, and find_by_name(name) is None afterwards
C23_DeleteRemovesAllByName ==
    Deleted =>
        /\ recipes = SelectSeq(prev, LAMBDA r : ~SameName(r.name, call.arg))
        /\ call.ret = (\E i \in 1..Len(prev) : SameName(prev[i].name, call.arg))
        /\ (call.ret = FALSE => recipes = prev)
        /\ find_by_name(recipes, call.arg) = None

\* two recipes whose names differ only in case were deleted by one call that
\* kept another recipe
C23_Witness ==
    /\ Deleted
    /\ call.ret = TRUE
    /\ Len(prev) = Len(recipes) + 2
    /\ recipes # <<>>
    /\ \E i \in 1..Len(prev) : prev[i].name # call.arg /\ SameName(prev[i].name, call.arg)

\* C24: every recipe of the catalog has a price, a time and calories that are
\* not negative
C24_NoNegativeNumbers ==
    \A i \in 1..Len(recipes) :
        /\ recipes[i].price >= 0
        /\ recipes[i].time_minutes >= 0
        /\ recipes[i].calories >= 0

\* C30: option 3 appends one recipe to the catalog, leaves the recipes before
\* it as they were and is back at the menu
C30_AddAppendsOneRecipe ==
    call.op = "option3" =>
        /\ cli = "menu"
        /\ Len(recipes) = Len(prev) + 1
        /\ SubSeq(recipes, 1, Len(prev)) = prev


-----------------------------------------------------------------------------
(* Properties of the logical search (SearchSpec) *)

\* the outcome of the expression on one recipe of the catalog
Outcome(text, r) == eval_expr(text, recipe_env(r), legacy)

\* the expression evaluates on every recipe of the catalog
EvaluatesOnAll(text) ==
    \A i \in 1..Len(recipes) : Outcome(text, recipes[i]).kind = "value"

\* the recipes on which the expression is true, in catalog order
Matching(text) == SelectSeq(recipes, LAMBDA r : Outcome(text, r).value = TRUE)

\* the recipes that the printed lines show
ShownRecipes(lines) ==
    LET shown == SelectSeq(lines, LAMBDA l : l.recipe # <<>>)
    IN [i \in 1..Len(shown) |-> shown[i].recipe[1]]

\* what print shows of each recipe of a list
StrEach(rs) == [i \in 1..Len(rs) |-> Recipe_str(rs[i])]

ErrorReported(lines) ==
    \E i \in 1..Len(lines) : lines[i].text = "Error evaluating expression"

=============================================================================
